---- MODULE Spec2Model ----
(***************************************************************************)
(* Telegram relay bot: the project store (storage.py) and the handlers of  *)
(* main.py that call it.  The table `projects` is a relation keyed by      *)
(* slug; every handler runs to completion without awaiting between its     *)
(* store reads and writes, and updates are handled one at a time, so one   *)
(* handler is one step.                                                    *)
(***************************************************************************)
EXTENDS Integers, Sequences, FiniteSets

\* ---------------------------------------------------------------- bounds
MaxSlug == 2
MaxChat == 2
\* Callers that use the store at the same time (threads or processes that
\* share the database file).
MaxClient == 2

\* Slugs are TEXT keys; the integers stand for distinct strings in
\* collation order (ORDER BY slug compares them with <).
Slugs == 1..MaxSlug
\* Telegram chat ids are non-zero integers.
Chats == 1..MaxChat
Clients == 1..MaxClient

\* NULL column / Python None of an Optional[int] field.  Chat ids are never
\* 0, so 0 is free to stand for it; it is falsy like None.
None == 0

\* projects: the rows of table projects
\* before:   the rows as they were when the last handler started
\* last:     the store call of the last handler, with its outcome
\* message:  the message the last handler was given to relay
\* sent:     the transport calls the last handler made, in order
\* clients:  for each concurrent caller of the store, the call it is in and
\*           how far it got (used by SpecConcurrent only, where before is
\*           the table when the callers started)
VARIABLES projects, before, last, message, sent, clients

vars == <<projects, before, last, message, sent, clients>>

\* ------------------------------------------------------------ storage.py

\* dataclass Project
Project(slug, customer_chat_id, executor_chat_id, is_active) ==
    [slug |-> slug, customer_chat_id |-> customer_chat_id,
     executor_chat_id |-> executor_chat_id, is_active |-> is_active]

\* A row of table projects: is_active is stored as INTEGER 0/1.
Row(slug, customer_chat_id, executor_chat_id, is_active) ==
    [slug |-> slug, customer_chat_id |-> customer_chat_id,
     executor_chat_id |-> executor_chat_id, is_active |-> is_active]

\* bool(row["is_active"])
bool(n) == n # 0

_row_to_project(row) ==
    Project(row.slug, row.customer_chat_id, row.executor_chat_id,
            bool(row.is_active))

\* SELECT ... FROM projects WHERE slug = ?
SelectBySlug(tbl, slug) == {r \in tbl : r.slug = slug}

\* The query restricted to active projects.
SelectByChat_active(tbl, chat_id) ==
    {r \in tbl : /\ r.executor_chat_id = chat_id \/ r.customer_chat_id = chat_id
                 /\ r.is_active = 1}

\* SELECT * FROM projects WHERE executor_chat_id = ? OR customer_chat_id = ?
SelectByChat(tbl, chat_id) ==
    {r \in tbl : r.executor_chat_id = chat_id \/ r.customer_chat_id = chat_id}

\* Insert with the chat id written to the customer column.
Insert_customer(tbl, slug, executor_chat_id) ==
    IF \E r \in tbl : r.slug = slug
    THEN [tbl |-> tbl, error |-> "IntegrityError"]
    ELSE [tbl |-> tbl \cup {Row(slug, executor_chat_id, None, 1)},
          error |-> ""]

\* INSERT INTO projects (slug, executor_chat_id, is_active) VALUES (?, ?, 1)
\* customer_chat_id takes its default NULL; slug is the PRIMARY KEY, so the
\* statement raises IntegrityError when the slug is taken.
Insert(tbl, slug, executor_chat_id) ==
    IF \E r \in tbl : r.slug = slug
    THEN [tbl |-> tbl, error |-> "IntegrityError"]
    ELSE [tbl |-> tbl \cup {Row(slug, None, executor_chat_id, 1)},
          error |-> ""]

\* UPDATE projects SET <column> = ?, is_active = <active> WHERE slug = ?
UpdateColumn(tbl, slug, column, value, active) ==
    {IF r.slug = slug
     THEN [[r EXCEPT ![column] = value] EXCEPT !.is_active = active]
     ELSE r : r \in tbl}

\* Deactivation that also unbinds both chats.
UpdateInactive_unbind(tbl, slug) ==
    {IF r.slug = slug THEN Row(r.slug, None, None, 0) ELSE r : r \in tbl}

\* UPDATE projects SET is_active = 0 WHERE slug = ?
UpdateInactive(tbl, slug) ==
    {IF r.slug = slug THEN [r EXCEPT !.is_active = 0] ELSE r : r \in tbl}

\* SQLiteProjectStorage.get: None is the empty sequence, a project <<p>>.
get(tbl, slug) ==
    LET rows == SelectBySlug(tbl, slug)
    IN  IF rows = {} THEN <<>>
        ELSE <<_row_to_project(CHOOSE r \in rows : TRUE)>>

\* The outcome of a store call: the table afterwards, the error raised
\* ("" when none) and the value returned.
Outcome(tbl, error, ret) == [tbl |-> tbl, error |-> error, ret |-> ret]

\* ValueError("Проект {slug} уже существует")
AlreadyExists == "AlreadyExists"
\* ValueError("Проект {slug} не найден")
NotFound == "NotFound"

\* create_project that gives a project without an executor the calling chat.
create_project_reclaim(tbl, slug, executor_chat_id) ==
    LET existing == SelectBySlug(tbl, slug)
    IN  IF \E r \in existing : r.executor_chat_id = None
        THEN Outcome({IF r.slug = slug
                      THEN [r EXCEPT !.executor_chat_id = executor_chat_id]
                      ELSE r : r \in tbl},
                     "", <<Project(slug, None, executor_chat_id, TRUE)>>)
        ELSE IF existing # {}
        THEN Outcome(tbl, AlreadyExists, <<>>)
        ELSE Outcome(tbl \cup {Row(slug, None, executor_chat_id, 1)}, "",
                     <<Project(slug, None, executor_chat_id, TRUE)>>)

\* create_project as INSERT OR REPLACE: no test for an existing slug.
create_project_replace(tbl, slug, executor_chat_id) ==
    Outcome((tbl \ SelectBySlug(tbl, slug))
              \cup {Row(slug, None, executor_chat_id, 1)},
            "", <<Project(slug, None, executor_chat_id, TRUE)>>)

create_project(tbl, slug, executor_chat_id) ==
    LET existing == SelectBySlug(tbl, slug)
    IN  IF existing # {}
        THEN Outcome(tbl, AlreadyExists, <<>>)
        ELSE LET ins == Insert(tbl, slug, executor_chat_id)
             IN  IF ins.error # ""
                 THEN Outcome(tbl, ins.error, <<>>)
                 ELSE Outcome(ins.tbl, "",
                              <<Project(slug, None, executor_chat_id, TRUE)>>)

\* bind_customer that leaves is_active alone.
bind_customer_keep_active(tbl, slug, customer_chat_id) ==
    LET row == SelectBySlug(tbl, slug)
    IN  IF row = {}
        THEN Outcome(tbl, NotFound, <<>>)
        ELSE LET upd == {IF r.slug = slug
                         THEN [r EXCEPT !.customer_chat_id = customer_chat_id]
                         ELSE r : r \in tbl}
             IN  Outcome(upd, "", get(upd, slug))

\* bind_customer as an upsert: a missing slug gets a row.
bind_customer_upsert(tbl, slug, customer_chat_id) ==
    LET upd == (tbl \ SelectBySlug(tbl, slug))
               \cup {IF SelectBySlug(tbl, slug) = {}
                     THEN Row(slug, customer_chat_id, None, 1)
                     ELSE Row(slug, customer_chat_id, r.executor_chat_id, 1)
                     : r \in IF SelectBySlug(tbl, slug) = {}
                             THEN {Row(slug, None, None, 1)}
                             ELSE SelectBySlug(tbl, slug)}
    IN  Outcome(upd, "", get(upd, slug))

bind_customer(tbl, slug, customer_chat_id) ==
    LET row == SelectBySlug(tbl, slug)
    IN  IF row = {}
        THEN Outcome(tbl, NotFound, <<>>)
        ELSE LET upd == UpdateColumn(tbl, slug, "customer_chat_id",
                                     customer_chat_id, 1)
             IN  Outcome(upd, "", get(upd, slug))

\* The list `updates` built with elif: at most one entry.
UnlinkUpdates_elif(project, chat_id) ==
    IF project.executor_chat_id = chat_id THEN <<"executor_chat_id">>
    ELSE IF project.customer_chat_id = chat_id THEN <<"customer_chat_id">>
    ELSE <<>>

\* The list `updates` of unlink_chat: one entry per matching column, in the
\* order the two independent tests append them.
UnlinkUpdates(project, chat_id) ==
    (IF project.executor_chat_id = chat_id
     THEN <<"executor_chat_id">> ELSE <<>>)
    \o
    (IF project.customer_chat_id = chat_id
     THEN <<"customer_chat_id">> ELSE <<>>)

\* The loop with UPDATE ... SET column = NULL that leaves is_active alone.
RECURSIVE ApplyUpdates_keep_active(_, _, _)
ApplyUpdates_keep_active(tbl, slug, updates) ==
    IF updates = <<>> THEN tbl
    ELSE ApplyUpdates_keep_active(
             {IF r.slug = slug THEN [r EXCEPT ![Head(updates)] = None]
              ELSE r : r \in tbl},
             slug, Tail(updates))

\* The loop with UPDATE ... SET column = NULL, is_active = 0.
RECURSIVE ApplyUpdates_deactivate(_, _, _)
ApplyUpdates_deactivate(tbl, slug, updates) ==
    IF updates = <<>> THEN tbl
    ELSE ApplyUpdates_deactivate(
             UpdateColumn(tbl, slug, Head(updates), None, 0),
             slug, Tail(updates))

\* for column, value in updates: UPDATE ... SET column = NULL, is_active = 1
RECURSIVE ApplyUpdates(_, _, _)
ApplyUpdates(tbl, slug, updates) ==
    IF updates = <<>> THEN tbl
    ELSE ApplyUpdates(UpdateColumn(tbl, slug, Head(updates), None, 1),
                      slug, Tail(updates))

unlink_chat(tbl, slug, chat_id) ==
    LET row == SelectBySlug(tbl, slug)
    IN  IF row = {}
        THEN Outcome(tbl, NotFound, <<>>)
        ELSE LET project == _row_to_project(CHOOSE r \in row : TRUE)
                 updates == UnlinkUpdates(project, chat_id)
                 upd     == IF updates = <<>>
                            THEN UpdateInactive(tbl, slug)
                            ELSE ApplyUpdates(tbl, slug, updates)
             IN  Outcome(upd, "", get(upd, slug))

\* SQLiteProjectStorage.find_by_chat: fetchone() on a query without ORDER BY
\* returns any one of the matching rows, so this is the set of the values
\* the call can return (None is the empty sequence).
find_by_chat(tbl, chat_id) ==
    LET rows == SelectByChat(tbl, chat_id)
    IN  IF rows = {} THEN {<<>>}
        ELSE {<<_row_to_project(r)>> : r \in rows}

\* SELECT * FROM projects ORDER BY slug DESC
RECURSIVE OrderBySlug_desc(_)
OrderBySlug_desc(rows) ==
    IF rows = {} THEN <<>>
    ELSE LET first == CHOOSE r \in rows : \A q \in rows : r.slug >= q.slug
         IN  <<first>> \o OrderBySlug_desc(rows \ {first})

\* SELECT * FROM projects ORDER BY slug
RECURSIVE OrderBySlug(_)
OrderBySlug(rows) ==
    IF rows = {} THEN <<>>
    ELSE LET first == CHOOSE r \in rows : \A q \in rows : r.slug <= q.slug
         IN  <<first>> \o OrderBySlug(rows \ {first})

list_projects(tbl) ==
    LET rows == OrderBySlug(tbl)
    IN  [i \in 1..Len(rows) |-> _row_to_project(rows[i])]

\* ---------------------------------------------------------------- main.py

\* What a handler did: the store call, its arguments and its outcome.
Call(op, slug, chat_id, error, ret) ==
    [op |-> op, slug |-> slug, chat_id |-> chat_id, error |-> error,
     ret |-> ret]

\* No message is being relayed by a command handler.
NoMessage == [from_bot |-> FALSE, text |-> "", caption |-> "", media |-> ""]

\* One call of the transport: the chat addressed, the bot method, the text
\* (or caption) as a sequence of tokens, and whether the transport accepted.
Send(chat_id, method, text, ok) ==
    [chat_id |-> chat_id, method |-> method, text |-> text, ok |-> ok]

\* A caller of the store: pc is "ready" before its call, "selected" after
\* the SELECT of the method, "committed" after its writes and commit, and
\* "done" when the method has returned or raised; row is what the SELECT
\* returned.
Client(pc, op, slug, chat_id, row, error, ret) ==
    [pc |-> pc, op |-> op, slug |-> slug, chat_id |-> chat_id, row |-> row,
     error |-> error, ret |-> ret]

Ready == Client("ready", "", None, None, {}, "", <<>>)

\* The application is waiting for the next update.  The builder does not
\* enable concurrent updates, so a handler starts only from here.
Idle == last.op = "idle"

Init ==
    /\ projects = {}
    /\ before = {}
    /\ last = Call("idle", None, None, "", <<>>)
    /\ message = NoMessage
    /\ sent = <<>>
    /\ clients = [c \in Clients |-> Ready]

\* /create_project <slug> sent in chat chat_id by the admin
CreateProject(slug, chat_id) ==
    LET out == create_project(projects, slug, chat_id)
    IN  /\ Idle
        /\ projects' = out.tbl
        /\ before' = projects
        /\ last' = Call("create_project", slug, chat_id, out.error, out.ret)
        /\ message' = NoMessage
        /\ sent' = <<Send(chat_id, "reply_text",
                          IF out.error # "" THEN <<out.error>>
                          ELSE <<"created", out.ret[1].slug>>, TRUE)>>
        /\ UNCHANGED clients

\* /bind_customer <slug> sent in chat chat_id by the admin
BindCustomer(slug, chat_id) ==
    LET out == bind_customer(projects, slug, chat_id)
    IN  /\ Idle
        /\ projects' = out.tbl
        /\ before' = projects
        /\ last' = Call("bind_customer", slug, chat_id, out.error, out.ret)
        /\ message' = NoMessage
        /\ sent' = <<Send(chat_id, "reply_text",
                          IF out.error # "" THEN <<out.error>>
                          ELSE <<"bound", out.ret[1].slug>>, TRUE)>>
        /\ UNCHANGED clients

\* /unlink_project <slug> sent in chat chat_id by the admin
UnlinkProject(slug, chat_id) ==
    LET out == unlink_chat(projects, slug, chat_id)
    IN  /\ Idle
        /\ projects' = out.tbl
        /\ before' = projects
        /\ last' = Call("unlink_chat", slug, chat_id, out.error, out.ret)
        /\ message' = NoMessage
        /\ sent' = <<Send(chat_id, "reply_text",
                          IF out.error # "" THEN <<out.error>>
                          ELSE <<"unlinked", out.ret[1].slug,
                                 IF out.ret[1].is_active THEN "yes" ELSE "no">>,
                          TRUE)>>
        /\ UNCHANGED clients

\* Truthiness of an Optional[int]: None (and 0) are falsy.
Truthy(x) == x # None

\* /project_info sent in chat chat_id by anyone
ProjectInfo(chat_id) ==
    \E found \in find_by_chat(projects, chat_id) :
        /\ Idle
        /\ last' = Call("find_by_chat", None, chat_id, "", found)
        /\ sent' = <<Send(chat_id, "reply_text",
                          IF found = <<>> THEN <<"not bound">>
                          ELSE <<found[1].slug,
                                 IF found[1].executor_chat_id = chat_id
                                 THEN "executor chat" ELSE "customer chat",
                                 IF found[1].is_active
                                 THEN "active" ELSE "inactive">>,
                          TRUE)>>
        /\ message' = NoMessage
        /\ before' = projects
        /\ UNCHANGED projects
        /\ UNCHANGED clients

\* One line of the /list_projects reply.
ListLine(project) ==
    <<project.slug,
      IF Truthy(project.customer_chat_id) THEN "bound" ELSE "not bound",
      IF Truthy(project.executor_chat_id) THEN "bound" ELSE "not bound",
      IF project.is_active THEN "active" ELSE "inactive">>

\* /list_projects sent in chat chat_id by the admin
ListProjects(chat_id) ==
    LET ps == list_projects(projects)
    IN  /\ Idle
        /\ last' = Call("list_projects", None, chat_id, "", ps)
        /\ sent' = <<Send(chat_id, "reply_text",
                          IF ps = <<>> THEN <<"no projects">>
                          ELSE [i \in 1..Len(ps) |-> ListLine(ps[i])],
                          TRUE)>>
        /\ message' = NoMessage
        /\ before' = projects
        /\ UNCHANGED projects
        /\ UNCHANGED clients

\* An admin command sent in chat chat_id by a user who is not the admin:
\* the wrapper replies and the wrapped handler does not run.
AdminOnly(chat_id) ==
    /\ Idle
    /\ last' = Call("admin_only", None, chat_id, "", <<>>)
    /\ sent' = <<Send(chat_id, "reply_text", <<"admin only">>, TRUE)>>
    /\ message' = NoMessage
    /\ before' = projects
    /\ UNCHANGED projects
    /\ UNCHANGED clients

\* action_labels
action_labels ==
    [customer |-> "Client:", executor |-> "Team:"]

\* A message the MessageHandler filter lets through: a text message, or a
\* photo, document, voice, audio or video with or without a caption.  The
\* fields hold the content (a token) or None; media is "" when absent.
Msg(from_bot, text, caption, media) ==
    [from_bot |-> from_bot, text |-> text, caption |-> caption,
     media |-> media]

MediaKinds == {"photo", "document", "voice", "audio", "video"}

TextMessages == {Msg(b, "TEXT", "", "") : b \in BOOLEAN}

MediaMessages ==
    {Msg(b, "", c, m) : b \in BOOLEAN, c \in {"", "CAPTION"},
                        m \in MediaKinds}

Messages == TextMessages \cup MediaMessages

\* a or b or c on strings: the first non-empty one, else the last.
Or3(a, b, c) == IF a # "" THEN a ELSE IF b # "" THEN b ELSE c

\* relay_text: the one transport call it makes.
relay_text(msg, target_chat_id, role, ok) ==
    Send(target_chat_id, "send_message",
         <<action_labels[role], Or3(msg.text, msg.caption, "")>>, ok)

\* relay_media: the one transport call it makes.
relay_media(msg, target_chat_id, role, ok) ==
    LET prefix == action_labels[role]
        caption_prefixed == IF msg.caption # ""
                            THEN <<prefix, msg.caption>> ELSE <<>>
    IN  IF msg.media \in MediaKinds
        THEN Send(target_chat_id, "send_" \o msg.media, caption_prefixed, ok)
        ELSE Send(target_chat_id, "send_message",
                  <<prefix, Or3(msg.text, msg.caption, "(unknown)")>>, ok)

\* Routing with the two role labels exchanged.
Route_swapped(found, source_chat_id) ==
    IF found = <<>> \/ ~found[1].is_active THEN <<>>
    ELSE LET project == found[1]
         IN  IF project.executor_chat_id = source_chat_id
                /\ Truthy(project.customer_chat_id)
             THEN <<project.customer_chat_id, "customer">>
             ELSE IF project.customer_chat_id = source_chat_id
                     /\ Truthy(project.executor_chat_id)
                  THEN <<project.executor_chat_id, "executor">>
                  ELSE <<>>

\* Routing without the test of is_active.
Route_inactive(found, source_chat_id) ==
    IF found = <<>> THEN <<>>
    ELSE LET project == found[1]
         IN  IF project.executor_chat_id = source_chat_id
                /\ Truthy(project.customer_chat_id)
             THEN <<project.customer_chat_id, "executor">>
             ELSE IF project.customer_chat_id = source_chat_id
                     /\ Truthy(project.executor_chat_id)
                  THEN <<project.executor_chat_id, "customer">>
                  ELSE <<>>

\* Routing that answers into the chat the message came from.
Route_echo(found, source_chat_id) ==
    IF found = <<>> \/ ~found[1].is_active THEN <<>>
    ELSE LET project == found[1]
         IN  IF project.executor_chat_id = source_chat_id
                /\ Truthy(project.customer_chat_id)
             THEN <<project.executor_chat_id, "executor">>
             ELSE IF project.customer_chat_id = source_chat_id
                     /\ Truthy(project.executor_chat_id)
                  THEN <<project.customer_chat_id, "customer">>
                  ELSE <<>>

\* The routing decision of relay_message over the resolved project:
\* <<target_chat_id, role>>, or <<>> when nothing is to be forwarded.
Route(found, source_chat_id) ==
    IF found = <<>> \/ ~found[1].is_active THEN <<>>
    ELSE LET project == found[1]
         IN  IF project.executor_chat_id = source_chat_id
                /\ Truthy(project.customer_chat_id)
             THEN <<project.customer_chat_id, "executor">>
             ELSE IF project.customer_chat_id = source_chat_id
                     /\ Truthy(project.executor_chat_id)
                  THEN <<project.executor_chat_id, "customer">>
                  ELSE <<>>

\* The transport calls of relay_message once the route is known: the
\* forward, and when it raises the notice replied to the source chat.
Forward(msg, source_chat_id, route, send_ok, reply_ok) ==
    LET fwd == IF msg.text # "" /\ msg.media = ""
               THEN relay_text(msg, route[1], route[2], send_ok)
               ELSE relay_media(msg, route[1], route[2], send_ok)
    IN  IF send_ok THEN <<fwd>>
        ELSE <<fwd, Send(source_chat_id, "reply_text",
                         <<"forward failed">>, reply_ok)>>

\* relay_message without the inner try: a refused notice is raised.
Escaped_notice(send_ok, reply_ok) ==
    IF send_ok THEN ""
    ELSE IF reply_ok THEN "" ELSE "TransportFailure"

\* The exception that leaves relay_message when the transport refuses the
\* forward and then the notice: each is caught by its `except Exception`
\* and logged, so none does.
Escaped(send_ok, reply_ok) ==
    IF send_ok THEN ""
    ELSE IF reply_ok THEN "" ELSE ""

\* relay_message without the test for the bot's own messages.
IsOwnMessage_never(msg) == FALSE

\* message.from_user and message.from_user.is_bot
IsOwnMessage(msg) == msg.from_bot

\* A non-command message msg arrives in chat chat_id; send_ok and reply_ok
\* say whether the transport accepts the forward and the failure notice.
relay_message(chat_id, msg, send_ok, reply_ok) ==
    /\ Idle
    /\ message' = msg
    /\ before' = projects
    /\ UNCHANGED projects
    /\ IF IsOwnMessage(msg)
       THEN /\ last' = Call("relay_message", None, chat_id, "", <<>>)
            /\ sent' = <<>>
       ELSE \E found \in find_by_chat(projects, chat_id) :
              LET route == Route(found, chat_id)
              IN  /\ last' = Call("relay_message", None, chat_id,
                                   IF route = <<>> THEN ""
                                   ELSE Escaped(send_ok, reply_ok), found)
                  /\ sent' = IF route = <<>> THEN <<>>
                             ELSE Forward(msg, chat_id, route,
                                          send_ok, reply_ok)
    /\ UNCHANGED clients

\* The handler has returned and the application waits for the next update.
NextUpdate ==
    /\ ~Idle
    /\ last' = Call("idle", None, None, "", <<>>)
    /\ message' = NoMessage
    /\ sent' = <<>>
    /\ before' = projects
    /\ UNCHANGED projects
    /\ UNCHANGED clients

Next ==
    \/ \E slug \in Slugs, chat_id \in Chats : CreateProject(slug, chat_id)
    \/ \E slug \in Slugs, chat_id \in Chats : BindCustomer(slug, chat_id)
    \/ \E slug \in Slugs, chat_id \in Chats : UnlinkProject(slug, chat_id)
    \/ \E chat_id \in Chats : ProjectInfo(chat_id)
    \/ \E chat_id \in Chats : ListProjects(chat_id)
    \/ \E chat_id \in Chats : AdminOnly(chat_id)
    \/ \E chat_id \in Chats, msg \in TextMessages,
          send_ok, reply_ok \in BOOLEAN :
            relay_message(chat_id, msg, send_ok, reply_ok)
    \/ NextUpdate

Spec == Init /\ [][Next]_vars

\* The same application when the chats also send photos, documents, voice
\* messages, audio and video: every message the MessageHandler filter lets
\* through.
NextMedia ==
    \/ \E slug \in Slugs, chat_id \in Chats : CreateProject(slug, chat_id)
    \/ \E slug \in Slugs, chat_id \in Chats : BindCustomer(slug, chat_id)
    \/ \E slug \in Slugs, chat_id \in Chats : UnlinkProject(slug, chat_id)
    \/ \E chat_id \in Chats, msg \in Messages,
          send_ok, reply_ok \in BOOLEAN :
            relay_message(chat_id, msg, send_ok, reply_ok)
    \/ NextUpdate

SpecMedia == Init /\ [][NextMedia]_vars

\* ------------------------------------------- the store, concurrent callers
\* Every method opens its own connection.  Its SELECT runs in autocommit
\* mode; sqlite3 opens the transaction only before the first INSERT or
\* UPDATE and holds the write lock until commit, so the writes and the
\* commit of a method are one step, after which bind_customer and
\* unlink_chat read the row again on a further connection.

\* Client c enters the method op(slug, chat_id) and runs its SELECT.
Select(c, op, slug, chat_id) ==
    LET row == SelectBySlug(projects, slug)
    IN  /\ clients[c].pc = "ready"
        /\ clients' = [clients EXCEPT ![c] =
              IF op = "create_project" /\ row # {}
              THEN Client("done", op, slug, chat_id, row, AlreadyExists, <<>>)
              ELSE IF op # "create_project" /\ row = {}
              THEN Client("done", op, slug, chat_id, row, NotFound, <<>>)
              ELSE Client("selected", op, slug, chat_id, row, "", <<>>)]
        /\ UNCHANGED <<projects, before, last, message, sent>>

\* The table after the writes of the method client record cl is in, decided
\* on the row its SELECT returned.
Written(tbl, cl) ==
    IF cl.op = "bind_customer"
    THEN UpdateColumn(tbl, cl.slug, "customer_chat_id", cl.chat_id, 1)
    ELSE LET project == _row_to_project(CHOOSE r \in cl.row : TRUE)
             updates == UnlinkUpdates(project, cl.chat_id)
         IN  IF updates = <<>> THEN UpdateInactive(tbl, cl.slug)
             ELSE ApplyUpdates(tbl, cl.slug, updates)

\* Client c runs the writes of its method and commits.
Write(c) ==
    LET cl == clients[c]
        ins == Insert(projects, cl.slug, cl.chat_id)
    IN  /\ cl.pc = "selected"
        /\ IF cl.op = "create_project"
           THEN /\ projects' = ins.tbl
                /\ clients' = [clients EXCEPT ![c] =
                      [cl EXCEPT !.pc = "done", !.error = ins.error,
                                 !.ret = IF ins.error # "" THEN <<>>
                                         ELSE <<Project(cl.slug, None,
                                                        cl.chat_id, TRUE)>>]]
           ELSE /\ projects' = Written(projects, cl)
                /\ clients' = [clients EXCEPT ![c].pc = "committed"]
        /\ UNCHANGED <<before, last, message, sent>>

\* Client c returns self.get(slug).
Reread(c) ==
    /\ clients[c].pc = "committed"
    /\ clients' = [clients EXCEPT ![c].pc = "done",
                                  ![c].ret = get(projects, clients[c].slug)]
    /\ UNCHANGED <<projects, before, last, message, sent>>

\* No call is under way.
Quiescent == \A c \in Clients : clients[c].pc \in {"ready", "done"}

\* The calls have returned; the callers go on from the table they left.
Returned ==
    /\ Quiescent
    /\ \E c \in Clients : clients[c].pc = "done"
    /\ clients' = [c \in Clients |-> Ready]
    /\ before' = projects
    /\ UNCHANGED <<projects, last, message, sent>>

StoreOps == {"create_project", "bind_customer", "unlink_chat"}

NextConcurrent ==
    \/ \E c \in Clients, op \in StoreOps, slug \in Slugs, chat_id \in Chats :
          Select(c, op, slug, chat_id)
    \/ \E c \in Clients : Write(c)
    \/ \E c \in Clients : Reread(c)
    \/ Returned

SpecConcurrent == Init /\ [][NextConcurrent]_vars

\* ---------------------------------------------------------------- claims

\* The rows of tbl that carry slug.
RowsOf(tbl, slug) == {r \in tbl : r.slug = slug}

\* The last handler called the store method op.
Did(op) == last.op = op

\* C1: create_project on a slug that already has a record fails with
\* AlreadyExists and leaves that record and every other record as they
\* were; the table never holds two records with the same slug.
C1_CreateExistingFails ==
    /\ (Did("create_project") /\ RowsOf(before, last.slug) # {})
          => /\ last.error = AlreadyExists
             /\ last.ret = <<>>
             /\ projects = before
    /\ \A r \in projects, q \in projects : r.slug = q.slug => r = q

\* C1 witness: a create on a taken slug was refused, while the record it
\* would have replaced has a customer and another executor.
C1_Witness ==
    /\ Did("create_project")
    /\ last.error = AlreadyExists
    /\ \E r \in before : /\ r.slug = last.slug
                         /\ r.customer_chat_id # None
                         /\ r.executor_chat_id # last.chat_id
                         /\ r \in projects

\* C2: create_project on an unused slug adds exactly one record, with the
\* given executor, no customer and is_active set, leaves every other record
\* as it was, and get(slug) then returns exactly that record.
C2_CreateFresh ==
    (Did("create_project") /\ RowsOf(before, last.slug) = {})
       => /\ last.error = ""
          /\ projects = before \cup {Row(last.slug, None, last.chat_id, 1)}
          /\ Cardinality(projects) = Cardinality(before) + 1
          /\ get(projects, last.slug)
               = <<Project(last.slug, None, last.chat_id, TRUE)>>
          /\ last.ret = get(projects, last.slug)

\* C2 witness: a project was created next to an existing one.
C2_Witness ==
    /\ Did("create_project")
    /\ last.error = ""
    /\ before # {}
    /\ RowsOf(before, last.slug) = {}
    /\ RowsOf(projects, last.slug) # {}

\* C3: bind_customer on an existing slug sets customer_chat_id to the given
\* chat whatever it was, sets is_active even when the project was inactive,
\* keeps executor_chat_id and leaves every other record as it was.
C3_BindOverwrites ==
    (Did("bind_customer") /\ RowsOf(before, last.slug) # {})
       => /\ last.error = ""
          /\ projects =
               {IF r.slug = last.slug
                THEN Row(r.slug, last.chat_id, r.executor_chat_id, 1)
                ELSE r : r \in before}
          /\ last.ret = get(projects, last.slug)

\* C3 witness: a bind replaced another customer on an inactive project, next
\* to a second project.
C3_Witness ==
    /\ Did("bind_customer")
    /\ \E r \in before : /\ r.slug = last.slug
                         /\ r.customer_chat_id \notin {None, last.chat_id}
                         /\ r.is_active = 0
    /\ \E q \in before : q.slug # last.slug
    /\ \E r \in projects : /\ r.slug = last.slug
                           /\ r.customer_chat_id = last.chat_id
                           /\ r.is_active = 1

\* C4: bind_customer and unlink_chat on a slug without a record fail with
\* NotFound, create no record for it and leave the table as it was.
C4_UnknownSlugNotFound ==
    ((Did("bind_customer") \/ Did("unlink_chat"))
        /\ RowsOf(before, last.slug) = {})
       => /\ last.error = NotFound
          /\ last.ret = <<>>
          /\ RowsOf(projects, last.slug) = {}
          /\ projects = before

\* C4 witness: an unlink of an unknown slug was refused while the table held
\* another project.
C4_Witness ==
    /\ Did("unlink_chat")
    /\ last.error = NotFound
    /\ RowsOf(before, last.slug) = {}
    /\ projects # {}

\* The table before with its row r replaced by the row new.
Replaced(r, new) == (before \ {r}) \cup {new}

\* C5: unlink_chat with a chat id equal to exactly one of the project's two
\* stored endpoints clears that endpoint, keeps the other and sets
\* is_active, also when the project was inactive.
C5_UnlinkClearsMatching ==
    Did("unlink_chat") =>
      \A r \in before :
        (/\ r.slug = last.slug
         /\ (r.executor_chat_id = last.chat_id)
              # (r.customer_chat_id = last.chat_id))
          => LET new == IF r.executor_chat_id = last.chat_id
                        THEN Row(r.slug, r.customer_chat_id, None, 1)
                        ELSE Row(r.slug, None, r.executor_chat_id, 1)
             IN  /\ last.error = ""
                 /\ projects = Replaced(r, new)
                 /\ last.ret = <<_row_to_project(new)>>

\* C5 witness: the customer chat of an inactive project was unlinked, and the
\* project is active with its executor column as it was.
C5_Witness ==
    /\ Did("unlink_chat")
    /\ \E r \in before :
          /\ r.slug = last.slug
          /\ r.customer_chat_id = last.chat_id
          /\ r.executor_chat_id # last.chat_id
          /\ r.is_active = 0
          /\ Row(r.slug, None, r.executor_chat_id, 1) \in projects

\* C6: unlink_chat with a chat id that equals neither stored endpoint (also
\* when an endpoint is unset) leaves both endpoints as they were and clears
\* is_active.
C6_StaleUnlinkDeactivates ==
    Did("unlink_chat") =>
      \A r \in before :
        (/\ r.slug = last.slug
         /\ r.executor_chat_id # last.chat_id
         /\ r.customer_chat_id # last.chat_id)
          => LET new == Row(r.slug, r.customer_chat_id, r.executor_chat_id, 0)
             IN  /\ last.error = ""
                 /\ projects = Replaced(r, new)
                 /\ last.ret = <<_row_to_project(new)>>

\* C6 witness: a stale unlink deactivated an active project that has an
\* executor and no customer.
C6_Witness ==
    /\ Did("unlink_chat")
    /\ \E r \in before :
          /\ r.slug = last.slug
          /\ r.executor_chat_id \notin {None, last.chat_id}
          /\ r.customer_chat_id = None
          /\ r.is_active = 1
          /\ Row(r.slug, None, r.executor_chat_id, 0) \in projects

\* C7 as stated: when both endpoints of the project equal the chat id,
\* unlink_chat clears executor_chat_id only and customer_chat_id still
\* equals the chat id afterwards.
C7_OnlyExecutorCleared ==
    Did("unlink_chat") =>
      \A r \in before :
        (/\ r.slug = last.slug
         /\ r.executor_chat_id = last.chat_id
         /\ r.customer_chat_id = last.chat_id)
          => projects = Replaced(r, Row(r.slug, last.chat_id, None, 1))

\* C7 amended: when both endpoints of the project equal the chat id,
\* unlink_chat clears both of them and sets is_active.
C7_BothCleared ==
    Did("unlink_chat") =>
      \A r \in before :
        (/\ r.slug = last.slug
         /\ r.executor_chat_id = last.chat_id
         /\ r.customer_chat_id = last.chat_id)
          => /\ last.error = ""
             /\ projects = Replaced(r, Row(r.slug, None, None, 1))
             /\ last.ret = <<Project(r.slug, None, None, TRUE)>>

\* C7 witness: a chat that was both executor and customer of a project was
\* unlinked from it.
C7_Witness ==
    /\ Did("unlink_chat")
    /\ \E r \in before :
          /\ r.slug = last.slug
          /\ r.executor_chat_id = last.chat_id
          /\ r.customer_chat_id = last.chat_id
    /\ Row(last.slug, None, None, 1) \in projects

\* The last handler asked the transport to forward the text message to chat
\* target under the label of role.
Forwarded(target, role) ==
    /\ sent # <<>>
    /\ sent[1].chat_id = target
    /\ sent[1].method = "send_message"
    /\ sent[1].text = <<action_labels[role], message.text>>

\* The row r is an active project with both endpoints set.
ActiveBound(r) ==
    /\ r.is_active = 1
    /\ r.executor_chat_id # None
    /\ r.customer_chat_id # None

\* The chat is an endpoint of the row r.
EndpointOf(chat_id, r) ==
    r.executor_chat_id = chat_id \/ r.customer_chat_id = chat_id

\* C8: for every active project with both endpoints set, a
\* non-bot text message from its executor chat is forwarded to its customer
\* chat under the executor label, and one from its customer chat to its
\* executor chat under the customer label.
C8_EveryProjectRelays ==
    (Did("relay_message") /\ ~message.from_bot) =>
      \A r \in projects :
        ActiveBound(r) =>
          /\ last.chat_id = r.executor_chat_id
               => Forwarded(r.customer_chat_id, "executor")
          /\ last.chat_id = r.customer_chat_id
               => Forwarded(r.executor_chat_id, "customer")

\* Routing where C8 does hold: for every active project whose two endpoints
\* are set to different chats, when the source chat is an endpoint of no
\* other project (the states that C15 and C20 describe).
C8_SoleProjectRelays ==
    (Did("relay_message") /\ ~message.from_bot) =>
      \A r \in projects :
        (/\ ActiveBound(r)
         /\ r.executor_chat_id # r.customer_chat_id
         /\ \A q \in projects \ {r} : ~EndpointOf(last.chat_id, q))
          => /\ last.chat_id = r.executor_chat_id
                  => Forwarded(r.customer_chat_id, "executor")
             /\ last.chat_id = r.customer_chat_id
                  => Forwarded(r.executor_chat_id, "customer")

\* Such a state is reached: with two projects in the table, a text message
\* from the customer chat of one was forwarded to its executor chat under
\* the customer label.
C8_Witness ==
    /\ Did("relay_message")
    /\ ~message.from_bot
    /\ Cardinality(projects) = 2
    /\ \E r \in projects :
          /\ ActiveBound(r)
          /\ r.executor_chat_id # r.customer_chat_id
          /\ \A q \in projects \ {r} : ~EndpointOf(last.chat_id, q)
          /\ last.chat_id = r.customer_chat_id
          /\ Forwarded(r.executor_chat_id, "customer")

\* C9: a message makes the relay call the transport not at all when no
\* project is found for its chat, when the found project is inactive, or
\* when its chat is one endpoint of the found project and the other endpoint
\* is unset.
C9_NoDelivery ==
    Did("relay_message") =>
      /\ (\/ last.ret = <<>>
          \/ ~last.ret[1].is_active
          \/ /\ last.ret[1].executor_chat_id = last.chat_id
             /\ last.ret[1].customer_chat_id = None
          \/ /\ last.ret[1].customer_chat_id = last.chat_id
             /\ last.ret[1].executor_chat_id = None)
           => sent = <<>>
      /\ (\A r \in projects :
             EndpointOf(last.chat_id, r) =>
               \/ r.is_active = 0
               \/ r.executor_chat_id = None
               \/ r.customer_chat_id = None)
           => sent = <<>>
      /\ (\A r \in projects : ~EndpointOf(last.chat_id, r))
           => last.ret = <<>>

\* C9 witness: a user's message from the executor chat of an active project
\* without a customer was dropped.
C9_Witness ==
    /\ Did("relay_message")
    /\ ~message.from_bot
    /\ last.ret # <<>>
    /\ last.ret[1].is_active
    /\ last.ret[1].executor_chat_id = last.chat_id
    /\ last.ret[1].customer_chat_id = None
    /\ sent = <<>>

\* C10: a message authored by the bot itself makes the relay call the
\* transport not at all, also when its chat is an endpoint of an active
\* project with both endpoints set; the table is left as it was.
C10_OwnMessagesDropped ==
    (Did("relay_message") /\ message.from_bot)
       => /\ sent = <<>>
          /\ projects = before

\* C10 witness: a bot-authored message arrived in the customer chat of an
\* active project with both endpoints set, and nothing was sent.
C10_Witness ==
    /\ Did("relay_message")
    /\ message.from_bot
    /\ \E r \in projects :
          /\ ActiveBound(r)
          /\ r.executor_chat_id # r.customer_chat_id
          /\ \A q \in projects \ {r} : ~EndpointOf(last.chat_id, q)
          /\ last.chat_id = r.customer_chat_id
    /\ sent = <<>>

\* The two role labels.
RolePrefixes == {action_labels[role] : role \in DOMAIN action_labels}

\* C11: every forwarded copy carries the prefix of the sender's role: a text
\* message goes out as prefixed text, and a photo, document, voice message,
\* audio or video goes out as the same kind with the prefix put before its
\* caption, or with the prefix and a placeholder when it has no caption.
C11_EveryCopyPrefixed ==
    (Did("relay_message") /\ sent # <<>> /\ sent[1].ok) =>
      /\ sent[1].method = IF message.media = "" THEN "send_message"
                          ELSE "send_" \o message.media
      /\ Len(sent[1].text) = 2
      /\ sent[1].text[1] \in RolePrefixes
      /\ message.text # "" => sent[1].text[2] = message.text
      /\ message.caption # "" => sent[1].text[2] = message.caption

\* C12: find_by_chat returns a stored project that has the chat id as its
\* executor or its customer whenever such a project exists, active or not,
\* and returns None exactly when no project has the chat id as an endpoint.
C12_FindByChat ==
    Did("find_by_chat") =>
      /\ last.ret = <<>> <=> (\A r \in projects : ~EndpointOf(last.chat_id, r))
      /\ last.ret # <<>> =>
           /\ \/ last.ret[1].executor_chat_id = last.chat_id
              \/ last.ret[1].customer_chat_id = last.chat_id
           /\ \E r \in projects :
                 last.ret[1] = Project(r.slug, r.customer_chat_id,
                                       r.executor_chat_id, r.is_active = 1)
      /\ projects = before

\* C12 witness: the chat was found as the customer of an inactive project
\* while the table also holds a project the chat does not belong to.
C12_Witness ==
    /\ Did("find_by_chat")
    /\ last.ret # <<>>
    /\ ~last.ret[1].is_active
    /\ last.ret[1].customer_chat_id = last.chat_id
    /\ \E q \in projects : ~EndpointOf(last.chat_id, q)

\* C13: list_projects returns every stored project exactly once, in
\* ascending order of slug, and leaves the table as it was; the table alone
\* determines the sequence, so two calls without a mutation between them
\* return the same one.
C13_ListSorted ==
    Did("list_projects") =>
      /\ Len(last.ret) = Cardinality(projects)
      /\ {last.ret[i] : i \in 1..Len(last.ret)}
           = {Project(r.slug, r.customer_chat_id, r.executor_chat_id,
                      r.is_active = 1) : r \in projects}
      /\ \A i \in 1..Len(last.ret), j \in 1..Len(last.ret) :
            i < j => last.ret[i].slug < last.ret[j].slug
      /\ projects = before

\* C13 witness: two projects were listed, one of them inactive.
C13_Witness ==
    /\ Did("list_projects")
    /\ Len(last.ret) = 2
    /\ \E i \in 1..2 : ~last.ret[i].is_active

\* C14: is_active of a project goes from set to clear only in an unlink_chat
\* of that project whose chat id equals neither of its endpoints; a
\* successful bind_customer and an unlink_chat that clears an endpoint leave
\* it set.
C14_DeactivatedOnlyByStaleUnlink ==
    /\ \A r \in before, q \in projects :
          (r.slug = q.slug /\ r.is_active = 1 /\ q.is_active = 0)
            => /\ Did("unlink_chat")
               /\ last.slug = r.slug
               /\ r.executor_chat_id # last.chat_id
               /\ r.customer_chat_id # last.chat_id
    /\ (Did("bind_customer") /\ last.error = "")
          => \A q \in projects : q.slug = last.slug => q.is_active = 1
    /\ Did("unlink_chat")
          => \A r \in before, q \in projects :
                (/\ r.slug = last.slug
                 /\ q.slug = last.slug
                 /\ EndpointOf(last.chat_id, r)) => q.is_active = 1

\* C14 witness: a stale unlink cleared is_active of an active project.
C14_Witness ==
    /\ Did("unlink_chat")
    /\ \E r \in before, q \in projects :
          /\ r.slug = last.slug
          /\ q.slug = last.slug
          /\ r.is_active = 1
          /\ q.is_active = 0
          /\ ~EndpointOf(last.chat_id, r)

\* C15: a chat id is an endpoint, customer or executor, of at most one
\* project.
C15_ChatInOneProject ==
    \A r \in projects, q \in projects :
       \A chat_id \in Chats :
          (EndpointOf(chat_id, r) /\ EndpointOf(chat_id, q)) => r = q

\* C17: when the transport refuses the forward, relay_message catches the
\* failure and replies a notice to the source chat; when that notice is
\* refused too, the failure is swallowed; either way no exception leaves the
\* handler, the table is as it was, and the application goes on to the next
\* update.
C17_FailureContained ==
    (Did("relay_message") /\ sent # <<>> /\ ~sent[1].ok) =>
      /\ Len(sent) = 2
      /\ sent[2].chat_id = last.chat_id
      /\ sent[2].method = "reply_text"
      /\ sent[2].text = <<"forward failed">>
      /\ last.error = ""
      /\ projects = before
      /\ ENABLED NextUpdate

\* C17 witness: the forward and the notice were both refused.
C17_Witness ==
    /\ Did("relay_message")
    /\ Len(sent) = 2
    /\ ~sent[1].ok
    /\ ~sent[2].ok
    /\ sent[1].chat_id # last.chat_id
    /\ projects # {}

\* C18: when a message from chat s is forwarded to chat d, the project that
\* find_by_chat returned for s is a stored, active project with s as one
\* endpoint and d as the other: s its executor and d its customer, or s its
\* customer and d its executor.
C18_ForwardWithinProject ==
    (Did("relay_message") /\ sent # <<>>) =>
      /\ last.ret # <<>>
      /\ last.ret[1].is_active
      /\ \E r \in projects :
            last.ret[1] = Project(r.slug, r.customer_chat_id,
                                  r.executor_chat_id, r.is_active = 1)
      /\ \/ /\ last.ret[1].executor_chat_id = last.chat_id
            /\ last.ret[1].customer_chat_id = sent[1].chat_id
         \/ /\ last.ret[1].customer_chat_id = last.chat_id
            /\ last.ret[1].executor_chat_id = sent[1].chat_id
      /\ sent[1].chat_id \in Chats
      /\ \A i \in 2..Len(sent) : sent[i].chat_id = last.chat_id

\* C18 witness: a message was forwarded from the customer chat to the
\* executor chat of a project while another project shares the source chat.
C18_Witness ==
    /\ Did("relay_message")
    /\ sent # <<>>
    /\ last.ret[1].customer_chat_id = last.chat_id
    /\ last.ret[1].executor_chat_id = sent[1].chat_id
    /\ sent[1].chat_id # last.chat_id
    /\ \E q \in projects : /\ q.slug # last.ret[1].slug
                           /\ EndpointOf(last.chat_id, q)

\* C19: once executor_chat_id of a project is unset it stays unset whatever
\* create_project, bind_customer and unlink_chat are called, and no message
\* is forwarded through such a project, active or not.
C19_ExecutorStaysCleared ==
    /\ \A r \in before :
          r.executor_chat_id = None
            => /\ \E q \in projects : q.slug = r.slug
               /\ \A q \in projects :
                     q.slug = r.slug => q.executor_chat_id = None
    /\ (Did("relay_message") /\ last.ret # <<>>
          /\ last.ret[1].executor_chat_id = None)
          => sent = <<>>

\* C19 witness: create_project was called for a project whose executor had
\* been unlinked, and the project still has no executor.
C19_Witness ==
    /\ Did("create_project")
    /\ \E r \in before :
          /\ r.slug = last.slug
          /\ r.executor_chat_id = None
          /\ r.customer_chat_id # None
          /\ r.is_active = 1
          /\ r \in projects

\* C20: the chat a message is forwarded to differs from the chat it came
\* from.
C20_NeverBackToSource ==
    (Did("relay_message") /\ sent # <<>> /\ sent[1].ok)
       => sent[1].chat_id # last.chat_id

\* The method of client record cl run alone, start to end, on tbl.
Alone(tbl, cl) ==
    IF cl.op = "create_project" THEN create_project(tbl, cl.slug, cl.chat_id)
    ELSE IF cl.op = "bind_customer"
    THEN bind_customer(tbl, cl.slug, cl.chat_id)
    ELSE unlink_chat(tbl, cl.slug, cl.chat_id)

\* What the calls of the clients cs can leave when they run one after the
\* other from tbl, in any order: the table, and for every client its error
\* and its return value.
RECURSIVE Serial(_, _)
Serial(tbl, cs) ==
    IF cs = {} THEN {[tbl |-> tbl, outs |-> {}]}
    ELSE UNION {LET o == Alone(tbl, clients[c])
                IN  {[tbl |-> f.tbl,
                      outs |-> f.outs \cup {<<c, o.error, o.ret>>}]
                     : f \in Serial(o.tbl, cs \ {c})}
                : c \in cs}

\* C16: store calls that interleave at the grain of their reads and writes
\* are serialized: when they have returned, the table and every call's
\* outcome are those of the calls run one after the other in some order.
C16_Serializable ==
    LET done == {c \in Clients : clients[c].pc = "done"}
    IN  Quiescent =>
          [tbl |-> projects,
           outs |-> {<<c, clients[c].error, clients[c].ret>> : c \in done}]
            \in Serial(before, done)

====
